---- MODULE Spec2Model ----
(***************************************************************************)
(* A model of the Gmail relay server (src/server.js): the process start-up *)
(* checks, the OAuth session cache and its token listener, the browser     *)
(* authorization flow (/auth/start, /auth/callback), POST /send, and the   *)
(* pure request normalizers.                                               *)
(*                                                                         *)
(* JavaScript strings that the code inspects character by character        *)
(* (attachment fields) are sequences of one-character strings; other       *)
(* strings are TLA+ strings, "" being the empty (falsy) string.  A JSON    *)
(* object is a function whose DOMAIN is the set of keys it has.            *)
(***************************************************************************)
EXTENDS Integers, Sequences, FiniteSets, TLC

VARIABLES
    phase,            \* "starting" | "serving" | "exited"   (module top level)
    env,              \* process.env, fixed for the life of the process
    now,              \* Date.now(), in milliseconds since the process started
    oauthStates,      \* the Map oauthStates: state token -> createdAt
    issued,           \* state tokens crypto.randomBytes has produced so far
    tokensFile,       \* data/tokens.json: [exists, data]
    cachedAuthClient, \* 0 (null) or the index in clients of the cached client
    clients,          \* credentials of every OAuth2 client loadOAuthClient made
    callbacks,        \* /auth/callback requests suspended in await getToken
    sends,            \* /send requests suspended in an await
    last,             \* the last response sent, with what the request did
    input,            \* argument handed to a normalizer
    output            \* what the normalizer returned or threw

vars == <<phase, env, now, oauthStates, issued, tokensFile, cachedAuthClient,
          clients, callbacks, sends, last, input, output>>

sysVars == <<phase, env, now, oauthStates, issued, tokensFile,
             cachedAuthClient, clients, callbacks, sends, last>>

(***************************************************************************)
(* Bounds of the model.                                                    *)
(***************************************************************************)
MaxTicks == 3         \* the clock advances at most this many times
MaxStates == 2        \* state tokens /auth/start can hand out
MaxInflight == 2      \* requests suspended in an await at a time
MaxRounds == 1        \* authorization rounds while /send is being served
MaxAttachments == 2   \* length of an attachments array

(***************************************************************************)
(* JavaScript strings as character sequences.                              *)
(***************************************************************************)
Lower(c) ==
    CASE c = "D" -> "d" [] c = "A" -> "a" [] c = "T" -> "t"
      [] c = "B" -> "b" [] c = "S" -> "s" [] c = "E" -> "e"
      [] OTHER -> c

LowerSeq(s) == [i \in 1..Len(s) |-> Lower(s[i])]

DataPrefix == <<"d", "a", "t", "a", ":">>
Base64Sep == <<";", "b", "a", "s", "e", "6", "4", ",">>
Base64 == <<"b", "a", "s", "e", "6", "4">>

\* the characters the regular expression's . does not match
LineTerminators == {"\n", "\r"}

Has(obj, k) == k \in DOMAIN obj

\* JavaScript truthiness of obj[k] for a token field (a string, or absent)
Truthy(obj, k) == Has(obj, k) /\ obj[k] # ""

EmptyObject == [k \in {} |-> <<>>]

\* { ...a, ...b }
Spread(a, b) ==
    [k \in DOMAIN a \cup DOMAIN b |-> IF k \in DOMAIN b THEN b[k] ELSE a[k]]

(***************************************************************************)
(* parseDataUrl: /^data:([^;]+);base64,(.+)$/i.exec(value).  [^;]+ cannot  *)
(* cross a semicolon, so the first group is the run of characters up to    *)
(* the first semicolon after the prefix; ";base64," must follow at once,   *)
(* and the rest of the string, non-empty and free of line terminators, is  *)
(* the second group.                                                       *)
(***************************************************************************)
FirstSemicolon(value) ==
    LET idx == {i \in 6..Len(value) : value[i] = ";"}
    IN  IF idx = {} THEN 0 ELSE CHOOSE i \in idx : \A j \in idx : i <= j

parseDataUrl(value) ==
    LET n == Len(value)
        semi == FirstSemicolon(value)
    IN  IF /\ n >= 5
           /\ LowerSeq(SubSeq(value, 1, 5)) = DataPrefix
           /\ semi > 6
           /\ semi + 8 <= n
           /\ LowerSeq(SubSeq(value, semi, semi + 7)) = Base64Sep
           /\ \A i \in (semi + 8)..n : value[i] \notin LineTerminators
        THEN [match |-> TRUE,
              contentType |-> SubSeq(value, 6, semi - 1),
              contentBase64 |-> SubSeq(value, semi + 8, n)]
        ELSE [match |-> FALSE, contentType |-> <<>>, contentBase64 |-> <<>>]

(***************************************************************************)
(* JavaScript values handed to the normalizers: [type, ...].  The falsy    *)
(* ones are undefined, null, the empty string, 0 and false.                *)
(***************************************************************************)
FalsyTypes == {"undefined", "null", "emptyString", "zero", "false"}

Get(obj, k) == IF Has(obj, k) THEN obj[k] ELSE <<>>

Optional(k, v) == IF v # <<>> THEN (k :> v) ELSE EmptyObject

(***************************************************************************)
(* normalizeAttachments: the callback of input.map, for one entry.         *)
(* index is the zero-based array index the error messages carry.           *)
(***************************************************************************)
AttachmentError(kind, index) ==
    [ok |-> FALSE, error |-> kind, index |-> index, value |-> EmptyObject]

\* a faulty variant: the type declared in the data URI always wins
finalContentType_urlWins(contentType, dataUrl) ==
    IF dataUrl.match THEN dataUrl.contentType ELSE contentType

finalContentType(contentType, dataUrl) ==
    IF dataUrl.match
    THEN (IF contentType # <<>> THEN contentType ELSE dataUrl.contentType)
    ELSE contentType

\* a faulty variant: contentBase64 is taken whenever it is set, before content
normalizeAttachment_base64First(attachment, index) ==
    IF attachment.type # "object"
    THEN AttachmentError("must be an object", index)
    ELSE
    LET a == attachment.fields
        filename == Get(a, "filename")
        content == Get(a, "content")
        contentBase64 == Get(a, "contentBase64")
        contentType == Get(a, "contentType")
        encoding == Get(a, "encoding")
        cid == Get(a, "cid")
        contentDisposition == Get(a, "contentDisposition")
        dataUrl == parseDataUrl(content)
        useBase64 == contentBase64 # <<>>
        useUrl == ~useBase64 /\ dataUrl.match
        content2 == IF useBase64 THEN contentBase64
                    ELSE IF useUrl THEN dataUrl.contentBase64 ELSE content
        encoding2 == IF useUrl \/ (useBase64 /\ encoding = <<>>) THEN Base64 ELSE encoding
        type1 == IF useUrl THEN finalContentType(contentType, dataUrl) ELSE contentType
    IN  IF filename = <<>>
        THEN AttachmentError("filename is required", index)
        ELSE IF content2 = <<>>
        THEN AttachmentError("content or contentBase64 is required", index)
        ELSE [ok |-> TRUE, error |-> "", index |-> index,
              value |-> [filename |-> filename, content |-> content2]
                          @@ Optional("encoding", encoding2)
                          @@ Optional("contentType", type1)
                          @@ Optional("cid", cid)
                          @@ Optional("contentDisposition", contentDisposition)]

normalizeAttachment(attachment, index) ==
    IF attachment.type # "object"
    THEN AttachmentError("must be an object", index)
    ELSE
    LET a == attachment.fields
        filename == Get(a, "filename")
        content == Get(a, "content")
        contentBase64 == Get(a, "contentBase64")
        contentType == Get(a, "contentType")
        encoding == Get(a, "encoding")
        cid == Get(a, "cid")
        contentDisposition == Get(a, "contentDisposition")
        dataUrl == parseDataUrl(content)
        content1 == IF dataUrl.match THEN dataUrl.contentBase64 ELSE content
        encoding1 == IF dataUrl.match THEN Base64 ELSE encoding
        type1 == finalContentType(contentType, dataUrl)
        useBase64 == content1 = <<>> /\ contentBase64 # <<>>
        content2 == IF useBase64 THEN contentBase64 ELSE content1
        encoding2 == IF useBase64 /\ encoding1 = <<>> THEN Base64 ELSE encoding1
    IN  IF filename = <<>>
        THEN AttachmentError("filename is required", index)
        ELSE IF content2 = <<>>
        THEN AttachmentError("content or contentBase64 is required", index)
        ELSE [ok |-> TRUE, error |-> "", index |-> index,
              value |-> [filename |-> filename, content |-> content2]
                          @@ Optional("encoding", encoding2)
                          @@ Optional("contentType", type1)
                          @@ Optional("cid", cid)
                          @@ Optional("contentDisposition", contentDisposition)]

(***************************************************************************)
(* normalizeAttachments(input).  The result is                             *)
(* [ok, defined, value, error, index]: input.map throws at the first entry *)
(* whose callback throws.                                                  *)
(***************************************************************************)
normalizeAttachments(in) ==
    IF in.type \in FalsyTypes
    THEN [ok |-> TRUE, defined |-> FALSE, value |-> <<>>, error |-> "", index |-> 0]
    ELSE IF in.type # "array"
    THEN [ok |-> FALSE, defined |-> FALSE, value |-> <<>>,
          error |-> "attachments must be an array", index |-> 0]
    ELSE
    LET each == [i \in 1..Len(in.items) |-> normalizeAttachment(in.items[i], i - 1)]
        bad == {i \in 1..Len(in.items) : ~each[i].ok}
        first == CHOOSE i \in bad : \A j \in bad : i <= j
    IN  IF bad = {}
        THEN [ok |-> TRUE, defined |-> TRUE,
              value |-> [i \in 1..Len(in.items) |-> each[i].value],
              error |-> "", index |-> 0]
        ELSE [ok |-> FALSE, defined |-> FALSE, value |-> <<>>,
              error |-> each[first].error, index |-> each[first].index]

(***************************************************************************)
(* normalizeHeaders(headers).  A header value is [type, val]; String()     *)
(* gives the decimal digits of a number, "true"/"false" for a boolean and  *)
(* "[object Object]" for an object.                                        *)
(***************************************************************************)
Digits == <<"0", "1", "2", "3", "4", "5", "6", "7", "8", "9">>

String(v) ==
    CASE v.type = "string" -> v.val
      [] v.type = "emptyString" -> ""
      [] v.type = "number" -> Digits[v.val + 1]
      [] v.type = "boolean" -> (IF v.val = 1 THEN "true" ELSE "false")
      [] OTHER -> "[object Object]"

normalizeHeaders(headers) ==
    IF headers.type \in FalsyTypes
    THEN [ok |-> TRUE, defined |-> FALSE, value |-> EmptyObject, error |-> ""]
    ELSE IF headers.type # "object"
    THEN [ok |-> FALSE, defined |-> FALSE, value |-> EmptyObject,
          error |-> "headers must be an object"]
    ELSE
    LET kept == {k \in DOMAIN headers.map :
                    headers.map[k].type \notin {"undefined", "null"}}
    IN  [ok |-> TRUE, defined |-> TRUE,
         value |-> [k \in kept |-> String(headers.map[k])],
         error |-> ""]

(***************************************************************************)
(* The server.  Time is in milliseconds; the clock moves in steps of five  *)
(* minutes, so that a state's age is below, at and above the TTL.          *)
(***************************************************************************)
AUTH_STATE_TTL_MS == 10 * 60 * 1000
TickMs == 5 * 60 * 1000

StateTokens == 1..MaxStates

EnvValues == {"", "set"}
EnvNames == {"API_KEY", "FROM_EMAIL", "GOOGLE_CLIENT_ID",
             "GOOGLE_CLIENT_SECRET", "GOOGLE_REDIRECT_URI"}

\* token material: the provider's grants and refresh payloads, the
\* client's credentials and the content of tokens.json
TokenRecords ==
    { EmptyObject,
      [access_token |-> "A2"],
      [access_token |-> "A2", refresh_token |-> ""],
      [access_token |-> "A2", refresh_token |-> "R2"],
      [refresh_token |-> "R2"] }

NoFile == [exists |-> FALSE, data |-> EmptyObject]
File(data) == [exists |-> TRUE, data |-> data]

Idle == [op |-> "none", status |-> 0, msg |-> ""]

Remove(seq, i) == SubSeq(seq, 1, i - 1) \o SubSeq(seq, i + 1, Len(seq))

(***************************************************************************)
(* Module top level: the start-up checks, then app.listen.                 *)
(***************************************************************************)
StartupOk == env.API_KEY # "" /\ env.FROM_EMAIL # ""

Startup ==
    /\ phase = "starting"
    /\ phase' = IF StartupOk THEN "serving" ELSE "exited"
    /\ UNCHANGED <<env, now, oauthStates, issued, tokensFile, cachedAuthClient,
                   clients, callbacks, sends, last, input, output>>

Tick ==
    /\ phase = "serving"
    /\ now < MaxTicks * TickMs
    /\ now' = now + TickMs
    /\ UNCHANGED <<phase, env, oauthStates, issued, tokensFile, cachedAuthClient,
                   clients, callbacks, sends, last, input, output>>

createOAuthClient ==
    IF \/ env.GOOGLE_CLIENT_ID = ""
       \/ env.GOOGLE_CLIENT_SECRET = ""
       \/ env.GOOGLE_REDIRECT_URI = ""
    THEN [ok |-> FALSE, error |-> "Missing Google OAuth env vars"]
    ELSE [ok |-> TRUE, error |-> ""]

(***************************************************************************)
(* The authorization flow.                                                 *)
(***************************************************************************)
\* a faulty variant: a state whose age is exactly the TTL is swept too
Expired_atTTL(createdAt, t) == t - createdAt >= AUTH_STATE_TTL_MS

Expired(createdAt, t) == t - createdAt > AUTH_STATE_TTL_MS

cleanupStates(states, t) ==
    [s \in {x \in DOMAIN states : ~Expired(states[x].createdAt, t)} |-> states[s]]

\* crypto.randomBytes(16).toString("hex"): a token never produced before.
\* Tokens are opaque, so they are numbered in the order they are produced.
randomBytes == CHOOSE s \in StateTokens \ DOMAIN issued :
                   \A t \in StateTokens \ DOMAIN issued : s <= t

\* GET /auth/start.
AuthStart ==
    /\ phase = "serving"
    /\ StateTokens \ DOMAIN issued # {}
    /\ LET state == randomBytes IN
          LET swept == cleanupStates(oauthStates, now)
              client == createOAuthClient
          IN  /\ oauthStates' = (state :> [createdAt |-> now]) @@ swept
              /\ issued' = (state :> FALSE) @@ issued
              /\ last' = [op |-> "authStart",
                          status |-> IF client.ok THEN 302 ELSE 500,
                          msg |-> client.error,
                          state |-> state]
    /\ UNCHANGED <<phase, env, now, tokensFile, cachedAuthClient, clients,
                   callbacks, sends, input, output>>

\* What a /auth/callback request did up to its first await: the query
\* parameters it read, whether the state lookup passed (and the age of the
\* state then), whether the state had passed a lookup before.
CallbackReply(status, msg, query, passed, age) ==
    [op |-> "callback", status |-> status, msg |-> msg, query |-> query,
     passed |-> passed, age |-> age,
     replay |-> query.state \in DOMAIN issued /\ issued[query.state]]

NoQuery == [code |-> "", state |-> 0, error |-> ""]

\* a faulty variant: the state is looked up but left in the Map
delete_kept(states, state) == states

\* a faulty variant: the state is checked against every token ever issued
lookup_issued(states, state) == state \in DOMAIN issued

\* what oauthStates.get / oauthStates.delete leave of the Map
lookup(states, state) == state \in DOMAIN states
delete(states, state) == [s \in DOMAIN states \ {state} |-> states[s]]

\* GET /auth/callback up to the await of getToken (lines 231-246).
\* query.state = 0 is a request without a state parameter.
CallbackBegin ==
    /\ phase = "serving"
    /\ \E query \in [code : {"", "code"}, state : {0} \cup StateTokens,
                     error : {"", "access_denied"}] :
          LET age == IF query.state \in DOMAIN oauthStates
                     THEN now - oauthStates[query.state].createdAt ELSE 0
          IN
          IF query.error # ""
          THEN /\ last' = CallbackReply(400, "Authorization failed.",
                                        [NoQuery EXCEPT !.error = query.error], FALSE, 0)
               /\ UNCHANGED <<oauthStates, issued, callbacks>>
          ELSE IF query.code = "" \/ query.state = 0
          THEN /\ last' = CallbackReply(400, "Missing code or state.", query, FALSE, age)
               /\ UNCHANGED <<oauthStates, issued, callbacks>>
          ELSE IF ~lookup(oauthStates, query.state)
          THEN /\ last' = CallbackReply(400, "Invalid or expired state.", query, FALSE, age)
               /\ UNCHANGED <<oauthStates, issued, callbacks>>
          ELSE /\ oauthStates' = delete(oauthStates, query.state)
               /\ issued' = [issued EXCEPT ![query.state] = TRUE]
               /\ IF ~createOAuthClient.ok
                  THEN /\ last' = CallbackReply(500, createOAuthClient.error, query, TRUE, age)
                       /\ UNCHANGED callbacks
                  ELSE /\ Len(callbacks) + Len(sends) < MaxInflight
                       /\ last' = CallbackReply(0, "", query, TRUE, age)
                       /\ callbacks' = Append(callbacks, [state |-> query.state])
    /\ UNCHANGED <<phase, env, now, tokensFile, cachedAuthClient, clients,
                   sends, input, output>>

\* a faulty variant: the new grant replaces the stored record
mergeTokens_newOnly(existing, tokens) == tokens

\* line 251
mergeTokens(existing, tokens) == Spread(existing, tokens)

\* a faulty variant: the merged record is written before it is checked
CallbackEnd_writeFirst ==
    /\ \E i \in 1..Len(callbacks), threw \in BOOLEAN :
       \E tokens \in (IF threw THEN {EmptyObject} ELSE TokenRecords) :
          LET existing == IF tokensFile.exists THEN tokensFile.data ELSE EmptyObject
              merged == mergeTokens(existing, tokens)
              reply(status, msg) ==
                  [op |-> "exchange", status |-> status, msg |-> msg,
                   threw |-> threw, tokens |-> tokens]
          IN  /\ callbacks' = Remove(callbacks, i)
              /\ IF threw
                 THEN /\ last' = reply(500, "invalid_grant")
                      /\ UNCHANGED tokensFile
                 ELSE /\ tokensFile' = File(merged)
                      /\ last' = IF ~Truthy(merged, "refresh_token")
                                 THEN reply(500, "No refresh token received. Revoke app and retry.")
                                 ELSE reply(200, "Authorization successful. You can now use /send.")
    /\ UNCHANGED <<phase, env, now, oauthStates, issued, cachedAuthClient,
                   clients, sends, input, output>>

\* GET /auth/callback from the return of getToken on (lines 246-266).
\* The exchange throws or returns token material.
CallbackEnd ==
    /\ \E i \in 1..Len(callbacks), threw \in BOOLEAN :
       \E tokens \in (IF threw THEN {EmptyObject} ELSE TokenRecords) :
          LET existing == IF tokensFile.exists THEN tokensFile.data ELSE EmptyObject
              merged == mergeTokens(existing, tokens)
              reply(status, msg) ==
                  [op |-> "exchange", status |-> status, msg |-> msg,
                   threw |-> threw, tokens |-> tokens]
          IN  /\ callbacks' = Remove(callbacks, i)
              /\ IF threw
                 THEN /\ last' = reply(500, "invalid_grant")
                      /\ UNCHANGED tokensFile
                 ELSE IF ~Truthy(merged, "refresh_token")
                 THEN /\ last' = reply(500, "No refresh token received. Revoke app and retry.")
                      /\ UNCHANGED tokensFile
                 ELSE /\ tokensFile' = File(merged)
                      /\ last' = reply(200, "Authorization successful. You can now use /send.")
    /\ UNCHANGED <<phase, env, now, oauthStates, issued, cachedAuthClient,
                   clients, sends, input, output>>

(***************************************************************************)
(* The OAuth session: loadOAuthClient and the "tokens" listener.           *)
(***************************************************************************)
\* a faulty variant: no cache check; every call loads tokens.json and builds a client
loadOAuthClient_uncached ==
    IF ~tokensFile.exists
    THEN [ok |-> FALSE, error |-> "tokens.json not found", client |-> 0,
          steps |-> <<"existsSync">>, cached |-> cachedAuthClient, clients |-> clients]
    ELSE IF ~Truthy(tokensFile.data, "refresh_token")
    THEN [ok |-> FALSE, error |-> "tokens.json missing refresh_token", client |-> 0,
          steps |-> <<"existsSync", "readFileSync">>,
          cached |-> cachedAuthClient, clients |-> clients]
    ELSE [ok |-> TRUE, error |-> "", client |-> Len(clients) + 1,
          steps |-> <<"existsSync", "readFileSync", "new OAuth2", "on tokens">>,
          cached |-> Len(clients) + 1,
          clients |-> Append(clients, [credentials |-> tokensFile.data])]

\* a faulty variant: the client is built, given its listener and cached
\* before the checks that throw
LoadFailed_cached(error, steps) ==
    [ok |-> FALSE, error |-> error, client |-> 0, steps |-> steps,
     cached |-> Len(clients) + 1,
     clients |-> Append(clients, [credentials |-> tokensFile.data])]

\* loadOAuthClient throws: the cache and the clients are as they were
LoadFailed(error, steps) ==
    [ok |-> FALSE, error |-> error, client |-> 0, steps |-> steps,
     cached |-> cachedAuthClient, clients |-> clients]

\* a faulty variant: the client built is returned but never put in the cache
loadOAuthClient_noCacheSet ==
    IF cachedAuthClient # 0
    THEN [ok |-> TRUE, error |-> "", client |-> cachedAuthClient, steps |-> <<>>,
          cached |-> cachedAuthClient, clients |-> clients]
    ELSE IF ~tokensFile.exists
    THEN LoadFailed("tokens.json not found", <<"existsSync">>)
    ELSE IF ~Truthy(tokensFile.data, "refresh_token")
    THEN LoadFailed("tokens.json missing refresh_token", <<"existsSync", "readFileSync">>)
    ELSE IF ~createOAuthClient.ok
    THEN LoadFailed(createOAuthClient.error, <<"existsSync", "readFileSync">>)
    ELSE [ok |-> TRUE, error |-> "", client |-> Len(clients) + 1,
          steps |-> <<"existsSync", "readFileSync", "new OAuth2", "on tokens">>,
          cached |-> cachedAuthClient,
          clients |-> Append(clients, [credentials |-> tokensFile.data])]

\* loadOAuthClient(): [ok, error, client] is what it returns or throws, steps
\* what it did, cached and clients the values it leaves in cachedAuthClient
\* and in the set of clients constructed (each with one listener registered).
loadOAuthClient ==
    IF cachedAuthClient # 0
    THEN [ok |-> TRUE, error |-> "", client |-> cachedAuthClient, steps |-> <<>>,
          cached |-> cachedAuthClient, clients |-> clients]
    ELSE IF ~tokensFile.exists
    THEN LoadFailed("tokens.json not found", <<"existsSync">>)
    ELSE IF ~Truthy(tokensFile.data, "refresh_token")
    THEN LoadFailed("tokens.json missing refresh_token", <<"existsSync", "readFileSync">>)
    ELSE IF ~createOAuthClient.ok
    THEN LoadFailed(createOAuthClient.error, <<"existsSync", "readFileSync">>)
    ELSE [ok |-> TRUE, error |-> "", client |-> Len(clients) + 1,
          steps |-> <<"existsSync", "readFileSync", "new OAuth2", "on tokens">>,
          cached |-> Len(clients) + 1,
          clients |-> Append(clients, [credentials |-> tokensFile.data])]

\* a faulty variant: the listener writes the new token material alone
tokensListener_newOnly(credentials, newTokens, written, file) ==
    IF ~Truthy(newTokens, "access_token") /\ ~Truthy(newTokens, "refresh_token")
    THEN file
    ELSE IF written THEN File(newTokens) ELSE file

\* a faulty variant: a failed write leaves tokens.json truncated
tokensListener_truncates(credentials, newTokens, written, file) ==
    IF ~Truthy(newTokens, "access_token") /\ ~Truthy(newTokens, "refresh_token")
    THEN file
    ELSE IF written THEN File(Spread(credentials, newTokens)) ELSE File(EmptyObject)

\* a faulty variant: the listener has no guard and writes on every event
tokensListener_unguarded(credentials, newTokens, written, file) ==
    IF written THEN File(Spread(credentials, newTokens)) ELSE file

\* The listener of lines 60-69: what it leaves in tokens.json.  written says
\* whether writeFileSync succeeded; a failure is caught and logged.
tokensListener(credentials, newTokens, written, file) ==
    IF ~Truthy(newTokens, "access_token") /\ ~Truthy(newTokens, "refresh_token")
    THEN file
    ELSE IF written THEN File(Spread(credentials, newTokens)) ELSE file

\* The OAuth2 client after a refresh: the new token material becomes its
\* credentials, with the refresh token it was using kept.
refreshedCredentials(credentials, newTokens) ==
    Spread(newTokens, [refresh_token |-> credentials.refresh_token])

(***************************************************************************)
(* POST /send.                                                             *)
(***************************************************************************)
NoHeaders == [type |-> "undefined", map |-> EmptyObject]
NoAttachments == [type |-> "undefined", items |-> <<>>]
Entry(fields) == [type |-> "object", fields |-> fields]
Array(items) == [type |-> "array", items |-> items]

Body(to, subject, text, html, headers, attachments) ==
    [to |-> to, subject |-> subject, text |-> text, html |-> html,
     headers |-> headers, attachments |-> attachments]

PngUrl == DataPrefix \o <<"i", "/", "p">> \o Base64Sep \o <<"Q", "Q">>

SendBodies ==
    { Body("to", "subject", "text", "", NoHeaders, NoAttachments),
      Body("", "subject", "text", "", NoHeaders, NoAttachments),
      Body("to", "", "text", "", NoHeaders, NoAttachments),
      Body("to", "subject", "", "html", NoHeaders, NoAttachments),
      Body("to", "subject", "", "", NoHeaders, NoAttachments),
      Body("to", "subject", "", "", NoHeaders, Array(<<>>)),
      Body("to", "subject", "text", "", [type |-> "array", map |-> EmptyObject],
           NoAttachments),
      Body("to", "subject", "text", "", NoHeaders,
           [type |-> "string", items |-> <<>>]),
      Body("to", "subject", "", "html", NoHeaders,
           Array(<<Entry([content |-> PngUrl])>>)),
      Body("to", "subject", "", "",
           [type |-> "object", map |-> [x |-> [type |-> "number", val |-> 7]]],
           Array(<<Entry([filename |-> <<"f">>, content |-> PngUrl])>>)) }

ApiKeys == {"<none>", "set", "wrong"}

\* a faulty variant: a bad attachments value is not reported
validate_headersOnly(body) ==
    IF ~normalizeHeaders(body.headers).ok THEN normalizeHeaders(body.headers).error
    ELSE IF \/ body.to = ""
            \/ body.subject = ""
            \/ (body.text = "" /\ body.html = ""
                  /\ ~(body.attachments.type = "array" /\ Len(body.attachments.items) > 0))
    THEN "Require: to, subject, and text/html or attachments"
    ELSE ""

\* a faulty variant: any attachments array, even an empty one, counts as a body
validate_emptyArrayCounts(body) ==
    LET normalizedHeaders == normalizeHeaders(body.headers)
        normalizedAttachments == normalizeAttachments(body.attachments)
        hasAttachments == normalizedAttachments.defined
    IN  IF ~normalizedHeaders.ok THEN normalizedHeaders.error
        ELSE IF ~normalizedAttachments.ok THEN normalizedAttachments.error
        ELSE IF \/ body.to = ""
                \/ body.subject = ""
                \/ (body.text = "" /\ body.html = "" /\ ~hasAttachments)
        THEN "Require: to, subject, and text/html or attachments"
        ELSE ""

\* the checks of lines 292-299: "" when the request passes them, else the
\* message of the ValidationError thrown
validate(body) ==
    LET normalizedHeaders == normalizeHeaders(body.headers)
        normalizedAttachments == normalizeAttachments(body.attachments)
        hasAttachments ==
            normalizedAttachments.defined /\ Len(normalizedAttachments.value) > 0
    IN  IF ~normalizedHeaders.ok THEN normalizedHeaders.error
        ELSE IF ~normalizedAttachments.ok THEN normalizedAttachments.error
        ELSE IF \/ body.to = ""
                \/ body.subject = ""
                \/ (body.text = "" /\ body.html = "" /\ ~hasAttachments)
        THEN "Require: to, subject, and text/html or attachments"
        ELSE ""

\* req.body before the handler has destructured it
NoBody == Body("", "", "", "", NoHeaders, NoAttachments)

\* What a /send request did up to its first await: the steps of the handler
\* it reached, in order, and what loadOAuthClient did (load).
SendReply(status, msg, key, body, steps, load) ==
    [op |-> "send", status |-> status, msg |-> msg, key |-> key, body |-> body,
     steps |-> steps, load |-> load]

\* a faulty variant: a request without the header is let through
authorized_absentHeader(key) == key = env.API_KEY \/ key = "<none>"

\* the comparison of line 272
authorized(key) == key = env.API_KEY

SendDone(status, msg, steps) ==
    [op |-> "sent", status |-> status, msg |-> msg, steps |-> steps]

\* POST /send up to the await of buildMimeMessage (lines 270-324).  The
\* body of a request with a wrong key is never read: NoBody stands for it.
SendBegin ==
    /\ phase = "serving"
    /\ \E key \in ApiKeys :
       \E body \in (IF authorized(key) THEN SendBodies ELSE {NoBody}) :
          LET auth == loadOAuthClient IN
          IF ~authorized(key)
          THEN /\ last' = SendReply(401, "Unauthorized", key, NoBody,
                                    <<"authenticate">>, <<>>)
               /\ UNCHANGED <<cachedAuthClient, clients, sends>>
          ELSE IF validate(body) # ""
          THEN /\ last' = SendReply(400, validate(body), key, body,
                                    <<"authenticate", "normalize">>, <<>>)
               /\ UNCHANGED <<cachedAuthClient, clients, sends>>
          ELSE IF ~auth.ok
          THEN /\ last' = SendReply(500, auth.error, key, body,
                                    <<"authenticate", "normalize", "loadOAuthClient">>,
                                    auth.steps)
               /\ cachedAuthClient' = auth.cached
               /\ clients' = auth.clients
               /\ UNCHANGED sends
          ELSE /\ Len(callbacks) + Len(sends) < MaxInflight
               /\ cachedAuthClient' = auth.cached
               /\ clients' = auth.clients
               /\ sends' = Append(sends,
                      [pc |-> "compose", client |-> auth.client, refreshed |-> FALSE,
                       steps |-> <<"authenticate", "normalize", "loadOAuthClient",
                                   "buildMimeMessage">>])
               /\ last' = SendReply(0, "", key, body,
                                    <<"authenticate", "normalize", "loadOAuthClient">>,
                                    auth.steps)
    /\ UNCHANGED <<phase, env, now, oauthStates, issued, tokensFile, callbacks,
                   input, output>>

\* buildMimeMessage settles (lines 324-330): the build failed, or the raw
\* message goes to gmail.users.messages.send.
SendComposed ==
    /\ \E i \in 1..Len(sends), built \in BOOLEAN :
          LET r == sends[i] IN
          /\ r.pc = "compose"
          /\ IF built
             THEN /\ sends' = [sends EXCEPT ![i].pc = "provider",
                                            ![i].steps = Append(@, "messages.send")]
                  /\ UNCHANGED last
             ELSE /\ sends' = Remove(sends, i)
                  /\ last' = SendDone(500, "build failed", r.steps)
    /\ UNCHANGED <<phase, env, now, oauthStates, issued, tokensFile,
                   cachedAuthClient, clients, callbacks, input, output>>

\* During messages.send the client finds its access token expired and
\* refreshes it: the provider's token material is emitted to the listener,
\* then becomes the client's credentials.
Refresh ==
    /\ \E i \in 1..Len(sends), newTokens \in TokenRecords, written \in BOOLEAN :
          LET r == sends[i]
              writes == Truthy(newTokens, "access_token") \/ Truthy(newTokens, "refresh_token")
              credentials == clients[r.client].credentials
          IN  /\ r.pc = "provider"
              /\ ~r.refreshed
              /\ sends' = [sends EXCEPT ![i].refreshed = TRUE]
              /\ tokensFile' = tokensListener(credentials, newTokens, written, tokensFile)
              /\ clients' = [clients EXCEPT ![r.client].credentials =
                                refreshedCredentials(credentials, newTokens)]
              /\ last' = [op |-> "refresh", status |-> 0, msg |-> "",
                          newTokens |-> newTokens, written |-> written]
              /\ writes \/ written
    /\ UNCHANGED <<phase, env, now, oauthStates, issued, cachedAuthClient,
                   callbacks, input, output>>

\* a faulty variant: a failed messages.send is tried again
SendEnd_retry ==
    /\ \E i \in 1..Len(sends), sent \in BOOLEAN :
          LET r == sends[i] IN
          /\ r.pc = "provider"
          /\ IF sent
             THEN /\ sends' = Remove(sends, i)
                  /\ last' = SendDone(200, "id", r.steps)
             ELSE /\ sends' = [sends EXCEPT ![i].steps = Append(@, "messages.send")]
                  /\ UNCHANGED last
    /\ UNCHANGED <<phase, env, now, oauthStates, issued, tokensFile,
                   cachedAuthClient, clients, callbacks, input, output>>

\* messages.send settles (lines 327-338).
SendEnd ==
    /\ \E i \in 1..Len(sends), sent \in BOOLEAN :
          LET r == sends[i] IN
          /\ r.pc = "provider"
          /\ sends' = Remove(sends, i)
          /\ last' = IF sent
                     THEN SendDone(200, "id", r.steps)
                     ELSE SendDone(500, "provider error", r.steps)
    /\ UNCHANGED <<phase, env, now, oauthStates, issued, tokensFile,
                   cachedAuthClient, clients, callbacks, input, output>>

\* tokens.json is removed out of band (the credential is revoked).
StoreRemoved ==
    /\ phase = "serving"
    /\ tokensFile.exists
    /\ tokensFile' = NoFile
    /\ UNCHANGED <<phase, env, now, oauthStates, issued, cachedAuthClient,
                   clients, callbacks, sends, last, input, output>>

(***************************************************************************)
(* The server's specification.                                             *)
(***************************************************************************)
NoCall == [fn |-> "none"]

Init ==
    /\ phase = "starting"
    /\ env \in [EnvNames -> EnvValues]
    /\ now = 0
    /\ oauthStates = EmptyObject
    /\ issued = EmptyObject
    /\ tokensFile \in {NoFile, File([access_token |-> "A1", refresh_token |-> "R1"])}
    /\ cachedAuthClient = 0
    /\ clients = <<>>
    /\ callbacks = <<>>
    /\ sends = <<>>
    /\ last = Idle
    /\ input = NoCall
    /\ output = NoCall

Next ==
    \/ Startup
    \/ Tick
    \/ AuthStart
    \/ CallbackBegin
    \/ CallbackEnd
    \/ SendBegin
    \/ SendComposed
    \/ Refresh
    \/ SendEnd
    \/ StoreRemoved

Spec == Init /\ [][Next]_vars

\* The authorization flow alone: no /send request arrives.
AuthNext ==
    \/ Startup
    \/ Tick
    \/ AuthStart
    \/ CallbackBegin
    \/ CallbackEnd
    \/ StoreRemoved

AuthSpec == Init /\ [][AuthNext]_vars

\* The server within one clock tick (only cleanupStates and the createdAt
\* of a pending state read the clock) and with at most MaxRounds
\* authorizations started.
SendNext ==
    \/ Startup
    \/ (Cardinality(DOMAIN issued) < MaxRounds /\ AuthStart)
    \/ CallbackBegin
    \/ CallbackEnd
    \/ SendBegin
    \/ SendComposed
    \/ Refresh
    \/ SendEnd
    \/ StoreRemoved

SendSpec == Init /\ [][SendNext]_vars

(***************************************************************************)
(* The normalizers on their own: every call of normalizeAttachments and    *)
(* normalizeHeaders on the arguments below.                                *)
(***************************************************************************)
Absent == <<"undefined">>   \* marks a key the entry does not have

Mimes == {<<"i", "/", "p">>, <<"t">>}
Payloads == {<<"Q", "Q">>, <<"Q", "=">>}

DataUrl(mime, payload) == DataPrefix \o mime \o Base64Sep \o payload
UpperDataUrl(mime, payload) ==
    <<"D", "A", "T", "A", ":">> \o mime
        \o <<";", "B", "A", "S", "E", "6", "4", ",">> \o payload

DataUrls == {DataUrl(m, p) : m \in Mimes, p \in Payloads}
              \cup {UpperDataUrl(<<"t">>, <<"Q", "Q">>)}

\* strings the regular expression does not match
NotDataUrls ==
    { <<>>,
      <<"h", "i">>,
      DataPrefix \o <<"t">> \o Base64Sep,
      DataPrefix \o Base64Sep \o <<"Q", "Q">>,
      DataPrefix \o <<"t", ";", "c">> \o Base64Sep \o <<"Q", "Q">>,
      DataPrefix \o <<"t">> \o Base64Sep \o <<"Q", "\n", "Q">>,
      DataPrefix \o <<"t", ",", "Q", "Q">> }

Strip(e) == [k \in {x \in DOMAIN e : e[x] # Absent} |-> e[k]]

AllEntries ==
    { Entry(Strip(e)) :
        e \in [filename : {Absent, <<>>, <<"f">>},
               content : {Absent} \cup DataUrls \cup NotDataUrls,
               contentBase64 : {Absent, <<>>, <<"Z", "Z">>},
               contentType : {Absent, <<>>, <<"x", "/", "y">>},
               encoding : {Absent, <<"h", "e", "x">>},
               cid : {Absent, <<"c">>},
               contentDisposition : {Absent, <<"i", "n", "l", "i", "n", "e">>}] }

\* entries of the longer arrays
CoreEntries ==
    { [type |-> "null", fields |-> EmptyObject],
      Entry([content |-> <<"h", "i">>]),
      Entry([filename |-> <<"f">>]),
      Entry([filename |-> <<"f">>, content |-> DataUrl(<<"i", "/", "p">>, <<"Q", "Q">>)]),
      Entry([filename |-> <<"g">>, content |-> DataUrl(<<"t">>, <<"Q", "=">>),
             contentType |-> <<"x", "/", "y">>]),
      Entry([filename |-> <<"f">>, contentBase64 |-> <<"Z", "Z">>]) }

RECURSIVE Arrays(_)
Arrays(n) ==
    IF n = 0 THEN {<<>>}
    ELSE Arrays(n - 1)
           \cup {Append(a, e) : a \in {x \in Arrays(n - 1) : Len(x) = n - 1},
                                e \in CoreEntries}

AttachmentInputs ==
    {[type |-> t, items |-> <<>>] : t \in FalsyTypes \cup {"string", "object"}}
      \cup {Array(<<e>>) : e \in AllEntries}
      \cup {Array(a) : a \in Arrays(MaxAttachments)}

HeaderValues ==
    { [type |-> "undefined", val |-> 0], [type |-> "null", val |-> 0],
      [type |-> "string", val |-> "v"], [type |-> "emptyString", val |-> 0],
      [type |-> "number", val |-> 0], [type |-> "number", val |-> 7],
      [type |-> "boolean", val |-> 0], [type |-> "object", val |-> 0] }

HeaderInputs ==
    {[type |-> t, map |-> EmptyObject] :
        t \in FalsyTypes \cup {"string", "array", "number"}}
      \cup {[type |-> "object", map |-> m] :
              m \in UNION {[D -> HeaderValues] : D \in SUBSET {"X-A", "X-B"}}}

CallAttachments ==
    /\ input = NoCall
    /\ \E in \in AttachmentInputs :
          /\ input' = [fn |-> "normalizeAttachments", arg |-> in]
          /\ output' = normalizeAttachments(in)
    /\ UNCHANGED sysVars

CallHeaders ==
    /\ input = NoCall
    /\ \E in \in HeaderInputs :
          /\ input' = [fn |-> "normalizeHeaders", arg |-> in]
          /\ output' = normalizeHeaders(in)
    /\ UNCHANGED sysVars

NormalizeNext ==
    \/ CallAttachments
    \/ CallHeaders

NormalizeInit ==
    /\ Init
    /\ \A n \in EnvNames : env[n] = "set"
    /\ tokensFile = NoFile

NormalizeSpec == NormalizeInit /\ [][NormalizeNext]_vars

(***************************************************************************)
(* The sender and reply-to of the composed message.  A request field that  *)
(* is absent and one that is the empty string are both falsy: "" stands    *)
(* for both.  formatAddress gives undefined, the bare address (name "") or *)
(* a { name, address } pair.                                               *)
(***************************************************************************)
formatAddress(address, name) ==
    IF address = "" THEN [defined |-> FALSE, name |-> "", address |-> ""]
    ELSE IF name = "" THEN [defined |-> TRUE, name |-> "", address |-> address]
    ELSE [defined |-> TRUE, name |-> name, address |-> address]

\* a faulty variant: the request's from is taken whenever it is supplied
mailOptions_fromRequest(body) ==
    [from |-> formatAddress(IF body.from # "" THEN body.from ELSE env.FROM_EMAIL,
                            body.fromName),
     replyTo |-> formatAddress(body.replyTo, body.replyToName)]

\* the from and replyTo options handed to MailComposer (server.js, lines
\* 304-312): the request's from is not read
mailOptions(body) ==
    [from |-> formatAddress(env.FROM_EMAIL, body.fromName),
     replyTo |-> formatAddress(body.replyTo, body.replyToName)]

\* the server that reads its tokens from TOKENS_PATH (the listing that
\* follows README.md): ALLOW_FROM_OVERRIDE === "true" && from ? from : FROM_EMAIL
fromAddress(from) ==
    IF env.ALLOW_FROM_OVERRIDE = "true" /\ from # "" THEN from ELSE env.FROM_EMAIL

mailOptionsOverride(body) ==
    [from |-> formatAddress(fromAddress(body.from), body.fromName),
     replyTo |-> formatAddress(body.replyTo, body.replyToName)]

OverrideValues == {"", "true", "1"}

MailBodies ==
    [from : {"", "a@x", "b@x"}, fromName : {"", "N"},
     replyTo : {"", "r@x"}, replyToName : {"", "M"}]

Compose ==
    /\ input = NoCall
    /\ \E body \in MailBodies :
          /\ input' = [fn |-> "mailOptions", arg |-> body]
          /\ output' = mailOptions(body)
    /\ UNCHANGED sysVars

ComposeOverride ==
    /\ input = NoCall
    /\ \E body \in MailBodies :
          /\ input' = [fn |-> "mailOptionsOverride", arg |-> body]
          /\ output' = mailOptionsOverride(body)
    /\ UNCHANGED sysVars

ComposeNext ==
    \/ Compose
    \/ ComposeOverride

ComposeInit ==
    /\ phase = "starting"
    /\ env \in {[n \in EnvNames |-> "set"] @@ ("ALLOW_FROM_OVERRIDE" :> v) :
                  v \in OverrideValues}
    /\ now = 0
    /\ oauthStates = EmptyObject
    /\ issued = EmptyObject
    /\ tokensFile = NoFile
    /\ cachedAuthClient = 0
    /\ clients = <<>>
    /\ callbacks = <<>>
    /\ sends = <<>>
    /\ last = Idle
    /\ input = NoCall
    /\ output = NoCall

ComposeSpec == ComposeInit /\ [][ComposeNext]_vars

(***************************************************************************)
(* The one-shot command-line authorization (the second script of           *)
(* server.js): a process of its own, which checks the OAuth client         *)
(* variables, prints the consent URL, reads the code and exchanges it.     *)
(* tokensFile is here the file at its TOKENS_PATH.                         *)
(***************************************************************************)
CliStartupOk ==
    /\ env.GOOGLE_CLIENT_ID # ""
    /\ env.GOOGLE_CLIENT_SECRET # ""
    /\ env.GOOGLE_REDIRECT_URI # ""

\* lines 350-381: up to the prompt for the code
CliStartup ==
    /\ phase = "starting"
    /\ phase' = IF CliStartupOk THEN "prompt" ELSE "exited"
    /\ UNCHANGED <<env, now, oauthStates, issued, tokensFile, cachedAuthClient,
                   clients, callbacks, sends, last, input, output>>

CliReply(status, msg, threw, tokens, warned) ==
    [op |-> "cli", status |-> status, msg |-> msg, threw |-> threw,
     tokens |-> tokens, warned |-> warned]

\* lines 382-395: the exchange throws or returns token material, which is
\* written as it is; status is the exit code of the process.
CliExchange ==
    /\ phase = "prompt"
    /\ \E threw \in BOOLEAN, written \in BOOLEAN :
       \E tokens \in (IF threw THEN {EmptyObject} ELSE TokenRecords) :
          LET warned == ~threw /\ ~Truthy(tokens, "refresh_token") IN
          IF threw \/ ~written
          THEN /\ threw => written
               /\ phase' = "exited"
               /\ last' = CliReply(1, "Failed to exchange code for tokens:",
                                   threw, tokens, warned)
               /\ UNCHANGED tokensFile
          ELSE /\ phase' = "done"
               /\ tokensFile' = File(tokens)
               /\ last' = CliReply(0, "Saved. You can now run the server.",
                                   threw, tokens, warned)
    /\ UNCHANGED <<env, now, oauthStates, issued, cachedAuthClient, clients,
                   callbacks, sends, input, output>>

CliFiles ==
    { NoFile,
      File([access_token |-> "A1", refresh_token |-> "R1"]),
      File([access_token |-> "A1"]) }

CliInit ==
    /\ phase = "starting"
    /\ env \in [EnvNames -> EnvValues]
    /\ now = 0
    /\ oauthStates = EmptyObject
    /\ issued = EmptyObject
    /\ tokensFile \in CliFiles
    /\ cachedAuthClient = 0
    /\ clients = <<>>
    /\ callbacks = <<>>
    /\ sends = <<>>
    /\ last = Idle
    /\ input = NoCall
    /\ output = NoCall

CliNext ==
    \/ CliStartup
    \/ CliExchange

CliSpec == CliInit /\ [][CliNext]_vars

(***************************************************************************)
(* Properties.                                                             *)
(***************************************************************************)
\* the step is a token refresh of the i-th suspended /send
RefreshOf(i) ==
    /\ Len(sends') = Len(sends)
    /\ ~sends[i].refreshed
    /\ sends'[i].refreshed

\* the step is the end of a token exchange of /auth/callback
ExchangeEnds == Len(callbacks') < Len(callbacks)

\* the step is a /send request that reached its first await or its reply
SendArrives == last' # last /\ last'.op = "send"

AccessOnly(tokens) ==
    Truthy(tokens, "access_token") /\ ~Has(tokens, "refresh_token")

\* C1: every client's credentials keep a refresh_token, and when a refresh
\* event carries an access token and no refresh_token, the record the
\* listener writes to tokens.json holds the refresh_token of the credentials
\* it merged over and the new access token.
C1_RefreshKeepsRefreshToken ==
    /\ [](\A c \in 1..Len(clients) : Truthy(clients[c].credentials, "refresh_token"))
    /\ [][\A i \in 1..Len(sends) :
            (RefreshOf(i) /\ AccessOnly(last'.newTokens) /\ last'.written) =>
                LET credentials == clients[sends[i].client].credentials IN
                /\ tokensFile'.exists
                /\ Truthy(tokensFile'.data, "refresh_token")
                /\ tokensFile'.data.refresh_token = credentials.refresh_token
                /\ tokensFile'.data.access_token = last'.newTokens.access_token]_vars

C1_Witness ==
    /\ last.op = "refresh"
    /\ last.written
    /\ last.newTokens = [access_token |-> "A2"]
    /\ tokensFile = File([access_token |-> "A2", refresh_token |-> "R1"])

\* C2: when tokens.json holds a refresh_token and the exchange returns token
\* material without one, /auth/callback answers 200 and the record written
\* keeps the stored refresh_token, takes every field of the new grant and
\* keeps every other stored field.
C2_CallbackMergeKeepsRefreshToken ==
    [][(/\ ExchangeEnds
        /\ ~last'.threw
        /\ tokensFile.exists
        /\ Truthy(tokensFile.data, "refresh_token")
        /\ ~Has(last'.tokens, "refresh_token")) =>
            /\ last'.status = 200
            /\ tokensFile'.exists
            /\ tokensFile'.data.refresh_token = tokensFile.data.refresh_token
            /\ DOMAIN tokensFile'.data = DOMAIN tokensFile.data \cup DOMAIN last'.tokens
            /\ \A k \in DOMAIN last'.tokens : tokensFile'.data[k] = last'.tokens[k]
            /\ \A k \in DOMAIN tokensFile.data \ DOMAIN last'.tokens :
                  tokensFile'.data[k] = tokensFile.data[k]]_vars

C2_Witness ==
    /\ last.op = "exchange"
    /\ last.status = 200
    /\ last.tokens = [access_token |-> "A2"]
    /\ tokensFile = File([access_token |-> "A2", refresh_token |-> "R1"])

\* C3: a /auth/callback request with a code, no provider error and a state
\* that already passed the lookup once does not pass it again: it is
\* answered 400 "Invalid or expired state.".
C3_StateSingleUse ==
    (/\ last.op = "callback"
     /\ last.query.error = ""
     /\ last.query.code # ""
     /\ last.replay) =>
        (~last.passed /\ last.status = 400 /\ last.msg = "Invalid or expired state.")

C3_Witness ==
    /\ last.op = "callback"
    /\ last.replay
    /\ last.query.code # ""
    /\ last.status = 400
    /\ callbacks # <<>>

\* C4: a /auth/callback request whose state is older than the TTL is
\* answered 400 and does not reach the token exchange.
C4_ExpiredStateRejected ==
    (last.op = "callback" /\ last.age > AUTH_STATE_TTL_MS) =>
        (~last.passed /\ last.status = 400)

\* C5: a /send request whose x-api-key is absent or wrong is answered 401
\* "Unauthorized" having done nothing but the key comparison, and leaves the
\* shared state as it was.
C5_UnauthorizedFirst ==
    /\ []((last.op = "send" /\ last.key # env.API_KEY) =>
            /\ last.status = 401
            /\ last.msg = "Unauthorized"
            /\ last.steps = <<"authenticate">>
            /\ last.load = <<>>)
    /\ [][(SendArrives /\ last'.key # env.API_KEY) =>
            UNCHANGED <<tokensFile, cachedAuthClient, clients, oauthStates,
                        issued, callbacks, sends>>]_vars

C5_Witness ==
    /\ last.op = "send"
    /\ last.key = "<none>"
    /\ last.status = 401
    /\ cachedAuthClient # 0
    /\ sends # <<>>

\* what makes a request body fail validation
InvalidBody(body) ==
    \/ body.headers.type \notin FalsyTypes \cup {"object"}
    \/ ~normalizeAttachments(body.attachments).ok
    \/ body.to = ""
    \/ body.subject = ""
    \/ /\ body.text = ""
       /\ body.html = ""
       /\ ~(body.attachments.type = "array" /\ Len(body.attachments.items) > 0)

ValidationMessages ==
    {"headers must be an object", "attachments must be an array",
     "must be an object", "filename is required",
     "content or contentBase64 is required",
     "Require: to, subject, and text/html or attachments"}

\* C6: a /send request with the right key whose body fails validation is
\* answered 400 with the validation message, having neither read tokens.json
\* nor built or cached a client nor called the provider.
C6_ValidationBeforeProvider ==
    /\ []((last.op = "send" /\ last.key = env.API_KEY /\ InvalidBody(last.body)) =>
            /\ last.status = 400
            /\ last.msg \in ValidationMessages
            /\ last.steps = <<"authenticate", "normalize">>
            /\ last.load = <<>>)
    /\ [][(SendArrives /\ last'.key = env.API_KEY /\ InvalidBody(last'.body)) =>
            UNCHANGED <<tokensFile, cachedAuthClient, clients, sends>>]_vars

C6_Witness ==
    /\ last.op = "send"
    /\ last.status = 400
    /\ last.msg = "filename is required"
    /\ cachedAuthClient # 0
    /\ tokensFile.exists

HandlerOrder ==
    <<"authenticate", "normalize", "loadOAuthClient", "buildMimeMessage",
      "messages.send">>

IsPrefix(s, t) == Len(s) <= Len(t) /\ s = SubSeq(t, 1, Len(s))

\* C7: the steps of every /send request are a prefix of authenticate,
\* normalize, loadOAuthClient, buildMimeMessage, messages.send, so the
\* provider is called at most once and only after the four other steps; an
\* error reply before the call has no provider call, a success has exactly
\* one, and a failed call is answered 500 with the provider's message.
C7_NoPartialSendNoRetry ==
    /\ \A i \in 1..Len(sends) :
          /\ IsPrefix(sends[i].steps, HandlerOrder)
          /\ sends[i].pc = "provider" <=> sends[i].steps = HandlerOrder
          /\ sends[i].client \in 1..Len(clients)
    /\ last.op = "send" =>
          /\ IsPrefix(last.steps, HandlerOrder)
          /\ Len(last.steps) <= 3
          /\ last.status \in {0, 400, 401, 500}
    /\ last.op = "sent" =>
          /\ IsPrefix(last.steps, HandlerOrder)
          /\ last.status \in {200, 500}
          /\ last.status = 200 => last.steps = HandlerOrder
          /\ (last.status = 500 /\ last.steps = HandlerOrder) => last.msg = "provider error"
          /\ (last.status = 500 /\ last.steps # HandlerOrder) => last.msg = "build failed"

C7_Witness ==
    /\ last.op = "sent"
    /\ last.status = 500
    /\ last.steps = HandlerOrder
    /\ last.msg = "provider error"

\* C8: the process serves requests only if API_KEY, FROM_EMAIL and the three
\* OAuth client variables are all set, and no request is ever answered with
\* the missing-OAuth-configuration error.
C8_MissingConfigFatal ==
    /\ phase = "serving" => \A n \in EnvNames : env[n] # ""
    /\ last.msg # "Missing Google OAuth env vars"

\* C9: once a client is cached, cachedAuthClient never changes and no other
\* client is built; every later /send that passes validation gets the cached
\* client without reading tokens.json, whatever tokens.json holds by then.
C9_SessionCached ==
    /\ [][cachedAuthClient # 0 =>
            (cachedAuthClient' = cachedAuthClient /\ Len(clients') = Len(clients))]_vars
    /\ [][(cachedAuthClient # 0 /\ SendArrives /\ last'.status \notin {400, 401}) =>
            /\ last'.status = 0
            /\ last'.load = <<>>
            /\ Len(sends') = Len(sends) + 1
            /\ sends'[Len(sends')].client = cachedAuthClient]_vars

C9_Witness ==
    /\ cachedAuthClient # 0
    /\ ~tokensFile.exists
    /\ last.op = "send"
    /\ last.status = 0
    /\ last.load = <<>>

\* C10: in a successful normalizeAttachments call, an entry whose content is
\* data:<mime>;base64,<payload> is normalized to content <payload>, encoding
\* base64 and contentType <mime>, or the entry's own contentType when it has
\* a non-empty one; an array of such entries with filenames succeeds.
IsDataUrl(content, mime, payload) ==
    content \in {DataUrl(mime, payload), UpperDataUrl(mime, payload)}

C10_DataUrlContentType ==
    (input.fn = "normalizeAttachments" /\ input.arg.type = "array") =>
        LET items == input.arg.items
            fromUrl(i) == /\ items[i].type = "object"
                          /\ Has(items[i].fields, "content")
                          /\ items[i].fields.content \in DataUrls
        IN  /\ (\A i \in 1..Len(items) :
                   fromUrl(i) /\ Get(items[i].fields, "filename") # <<>>) => output.ok
            /\ output.ok =>
                 \A i \in 1..Len(items), m \in Mimes, p \in Payloads :
                    (fromUrl(i) /\ IsDataUrl(items[i].fields.content, m, p)) =>
                        /\ output.value[i].content = p
                        /\ output.value[i].encoding = Base64
                        /\ output.value[i].contentType =
                              IF Get(items[i].fields, "contentType") # <<>>
                              THEN items[i].fields.contentType ELSE m

C10_Witness ==
    /\ input.fn = "normalizeAttachments"
    /\ output.ok
    /\ Len(output.value) = 2
    /\ ~Has(input.arg.items[1].fields, "contentType")
    /\ Has(output.value[1], "contentType")
    /\ output.value[1].contentType = <<"i", "/", "p">>
    /\ Has(input.arg.items[2].fields, "contentType")
    /\ Has(output.value[2], "contentType")
    /\ output.value[2].contentType = <<"x", "/", "y">>
    /\ output.value[2].content = <<"Q", "=">>

\* C11: a /send request with the right key and well-formed headers and
\* attachments is answered 400 "Require: to, subject, and text/html or
\* attachments" exactly when to is empty, or subject is empty, or text and
\* html are empty and attachments is not a non-empty array; an empty
\* attachments array does not count as a body.
WellFormed(body) ==
    /\ body.headers.type \in FalsyTypes \cup {"object"}
    /\ normalizeAttachments(body.attachments).ok

MissingRequired(body) ==
    \/ body.to = ""
    \/ body.subject = ""
    \/ /\ body.text = ""
       /\ body.html = ""
       /\ ~(body.attachments.type = "array" /\ Len(body.attachments.items) > 0)

C11_RequiredFields ==
    (last.op = "send" /\ last.key = env.API_KEY /\ WellFormed(last.body)) =>
        /\ MissingRequired(last.body) <=>
              (/\ last.status = 400
               /\ last.msg = "Require: to, subject, and text/html or attachments")
        /\ ~MissingRequired(last.body) => last.status \in {0, 500}

C11_Witness ==
    /\ last.op = "send"
    /\ last.status = 400
    /\ last.msg = "Require: to, subject, and text/html or attachments"
    /\ last.body.to = "to"
    /\ last.body.subject = "subject"
    /\ last.body.attachments = Array(<<>>)

\* the step is a /auth/callback request running up to its first await or reply
CallbackArrives == last' # last /\ last'.op = "callback"

\* C12: when the exchange returns token material without a non-empty
\* refresh_token and tokens.json holds none either, /auth/callback answers
\* 500 "No refresh token received. Revoke app and retry." and leaves
\* tokens.json as it was; /auth/callback changes tokens.json only in the step
\* that answers 200.
C12_NoRefreshTokenNothingPersisted ==
    /\ [][(/\ ExchangeEnds
            /\ ~last'.threw
            /\ ~Truthy(last'.tokens, "refresh_token")
            /\ ~(tokensFile.exists /\ Truthy(tokensFile.data, "refresh_token"))) =>
               /\ last'.status = 500
               /\ last'.msg = "No refresh token received. Revoke app and retry."
               /\ tokensFile' = tokensFile]_vars
    /\ [][(ExchangeEnds /\ last'.status # 200) => tokensFile' = tokensFile]_vars
    /\ [][CallbackArrives => tokensFile' = tokensFile]_vars

C12_Witness ==
    /\ last.op = "exchange"
    /\ last.status = 500
    /\ last.msg = "No refresh token received. Revoke app and retry."
    /\ last.tokens = [access_token |-> "A2"]
    /\ tokensFile.exists
    /\ tokensFile.data.refresh_token = ""

\* C13: the sender of the composed message is always defined; its address is
\* FROM_EMAIL whenever ALLOW_FROM_OVERRIDE is not "true", whatever from the
\* request carries; it differs from FROM_EMAIL only if ALLOW_FROM_OVERRIDE is
\* "true" and the request's from is non-empty, and is then that from; the
\* display name is the request's fromName and the address does not depend on it.
C13_SenderPolicy ==
    (input.fn \in {"mailOptions", "mailOptionsOverride"}) =>
        LET body == input.arg
            from == output.from
        IN  /\ from.defined
            /\ env.ALLOW_FROM_OVERRIDE # "true" => from.address = env.FROM_EMAIL
            /\ from.address # env.FROM_EMAIL =>
                  /\ env.ALLOW_FROM_OVERRIDE = "true"
                  /\ body.from # ""
                  /\ from.address = body.from
            /\ from.name = body.fromName

C13_Witness ==
    /\ input.fn = "mailOptions"
    /\ env.ALLOW_FROM_OVERRIDE = "1"
    /\ input.arg.from = "a@x"
    /\ input.arg.fromName = "N"
    /\ output.from = [defined |-> TRUE, name |-> "N", address |-> "set"]

\* C14: when the listener's write of tokens.json fails during a refresh, the
\* stored record stays as it was, the cached client stays cached with the
\* refreshed credentials (its refresh_token and the new access token), and
\* the /send that triggered the refresh goes on to the provider's answer
\* exactly as it does after a successful write.
C14_WriteFailureSwallowed ==
    [][\A i \in 1..Len(sends) :
          (RefreshOf(i) /\ ~last'.written) =>
              LET c == sends[i].client IN
              /\ tokensFile' = tokensFile
              /\ cachedAuthClient' = cachedAuthClient
              /\ Len(clients') = Len(clients)
              /\ Truthy(clients'[c].credentials, "refresh_token")
              /\ clients'[c].credentials.refresh_token = clients[c].credentials.refresh_token
              /\ \A k \in DOMAIN last'.newTokens \ {"refresh_token"} :
                    clients'[c].credentials[k] = last'.newTokens[k]
              /\ sends' = [sends EXCEPT ![i].refreshed = TRUE]
              /\ sends'[i].pc = "provider"]_vars

C14_Witness ==
    /\ last.op = "refresh"
    /\ ~last.written
    /\ last.newTokens = [access_token |-> "A2"]
    /\ tokensFile = File([access_token |-> "A1", refresh_token |-> "R1"])
    /\ cachedAuthClient = 1
    /\ clients[1].credentials = [access_token |-> "A2", refresh_token |-> "R1"]
    /\ Len(sends) = 1

\* C15: no two /auth/callback requests suspended in the token exchange carry
\* the same state, and a state in the exchange is no longer pending; a
\* request enters the exchange only with a state that was pending and that no
\* earlier request passed the lookup with, and the state leaves the pending
\* set in the very step that looks it up.
C15_OneExchangePerState ==
    /\ [](/\ \A i, j \in 1..Len(callbacks) :
                i # j => callbacks[i].state # callbacks[j].state
           /\ \A k \in 1..Len(callbacks) :
                /\ callbacks[k].state \notin DOMAIN oauthStates
                /\ issued[callbacks[k].state])
    /\ [][Len(callbacks') > Len(callbacks) =>
            LET state == callbacks'[Len(callbacks')].state IN
            /\ state \in DOMAIN oauthStates
            /\ ~issued[state]
            /\ state \notin DOMAIN oauthStates']_vars

C15_Witness ==
    /\ Len(callbacks) = 1
    /\ last.op = "callback"
    /\ last.query.code # ""
    /\ last.query.state = callbacks[1].state
    /\ last.status = 400
    /\ last.msg = "Invalid or expired state."

\* C16: once /auth/callback has persisted a record with a newly issued
\* refresh_token, a silent refresh of the cached session whose payload
\* carries no refresh_token does not replace the stored refresh_token (it
\* may only replace the access token).
C16_RefreshTokenNotRolledBack ==
    [][\A i \in 1..Len(sends) :
          (/\ RefreshOf(i)
           /\ last.op = "exchange"
           /\ last.status = 200
           /\ Truthy(last.tokens, "refresh_token")
           /\ tokensFile.exists
           /\ tokensFile.data.refresh_token = last.tokens.refresh_token
           /\ ~Has(last'.newTokens, "refresh_token")) =>
              /\ tokensFile'.exists
              /\ tokensFile'.data.refresh_token = tokensFile.data.refresh_token]_vars

\* C17: a tokens event whose payload has neither a non-empty access_token
\* nor a non-empty refresh_token leaves tokens.json as it is; any other
\* event, when the write succeeds, replaces the whole record by the client's
\* credentials overlaid with the payload: every key of either, the payload's
\* value wherever it has the key.
C17_ListenerGuard ==
    [][\A i \in 1..Len(sends) :
          RefreshOf(i) =>
              LET newTokens == last'.newTokens
                  credentials == clients[sends[i].client].credentials
              IN  IF /\ ~Truthy(newTokens, "access_token")
                     /\ ~Truthy(newTokens, "refresh_token")
                  THEN tokensFile' = tokensFile
                  ELSE last'.written =>
                         /\ tokensFile'.exists
                         /\ DOMAIN tokensFile'.data =
                               DOMAIN credentials \cup DOMAIN newTokens
                         /\ \A k \in DOMAIN newTokens :
                               tokensFile'.data[k] = newTokens[k]
                         /\ \A k \in DOMAIN credentials \ DOMAIN newTokens :
                               tokensFile'.data[k] = credentials[k]]_vars

C17_Witness ==
    /\ last.op = "refresh"
    /\ last.newTokens = EmptyObject
    /\ ~tokensFile.exists
    /\ cachedAuthClient # 0

\* C18: in a successful normalizeAttachments call, an entry with a non-empty
\* filename, no (or an empty) content and a non-empty contentBase64 is
\* normalized to content contentBase64 and encoding base64, whatever its own
\* encoding field holds.
C18_Base64FieldEncoding ==
    (input.fn = "normalizeAttachments" /\ input.arg.type = "array" /\ output.ok) =>
        \A i \in 1..Len(input.arg.items) :
           LET entry == input.arg.items[i] IN
           (/\ entry.type = "object"
            /\ Get(entry.fields, "filename") # <<>>
            /\ Get(entry.fields, "content") = <<>>
            /\ Get(entry.fields, "contentBase64") # <<>>) =>
               /\ output.value[i].content = entry.fields.contentBase64
               /\ Has(output.value[i], "encoding")
               /\ output.value[i].encoding = Base64

\* C19: normalizeAttachments succeeds exactly when no entry fails; an entry
\* fails with "filename is required" when its filename is absent or empty,
\* whatever content it has, and with "content or contentBase64 is required"
\* when it has a filename and neither content nor contentBase64; otherwise
\* its content is the payload of a data-URI content, else its content as it
\* is, else its contentBase64.  The error of a failing call is that of the
\* first failing entry, with that entry's index.
UrlPayload(content) ==
    CHOOSE p \in Payloads : \E m \in Mimes : IsDataUrl(content, m, p)

EntryError(entry) ==
    IF entry.type # "object" THEN "must be an object"
    ELSE IF Get(entry.fields, "filename") = <<>> THEN "filename is required"
    ELSE IF /\ Get(entry.fields, "content") = <<>>
            /\ Get(entry.fields, "contentBase64") = <<>>
    THEN "content or contentBase64 is required"
    ELSE ""

EntryContent(entry) ==
    LET content == Get(entry.fields, "content") IN
    IF content \in DataUrls THEN UrlPayload(content)
    ELSE IF content # <<>> THEN content
    ELSE entry.fields.contentBase64

C19_SourcePrecedence ==
    (input.fn = "normalizeAttachments" /\ input.arg.type = "array") =>
        LET items == input.arg.items
            bad == {i \in 1..Len(items) : EntryError(items[i]) # ""}
        IN  /\ output.ok <=> bad = {}
            /\ output.ok =>
                  /\ Len(output.value) = Len(items)
                  /\ \A i \in 1..Len(items) :
                        output.value[i].content = EntryContent(items[i])
            /\ ~output.ok =>
                  \E first \in bad :
                     /\ \A j \in bad : first <= j
                     /\ output.error = EntryError(items[first])
                     /\ output.index = first - 1

C19_Witness ==
    /\ input.fn = "normalizeAttachments"
    /\ input.arg.type = "array"
    /\ Len(input.arg.items) = 1
    /\ Get(input.arg.items[1].fields, "content") = <<"h", "i">>
    /\ Get(input.arg.items[1].fields, "contentBase64") = <<"Z", "Z">>
    /\ output.ok
    /\ output.value[1].content = <<"h", "i">>

\* C20: normalizeHeaders fails with "headers must be an object" on every
\* input other than undefined and null that is not a map of non-object
\* values, the empty string, 0 and false included; on such a map it returns
\* exactly the keys whose value is neither undefined nor null, each with
\* the string form of its value.
StringForm(v) ==
    CASE v.type = "string" -> v.val
      [] v.type = "emptyString" -> ""
      [] v.type = "number" /\ v.val = 0 -> "0"
      [] v.type = "number" /\ v.val = 7 -> "7"
      [] v.type = "boolean" /\ v.val = 0 -> "false"
      [] v.type = "boolean" /\ v.val = 1 -> "true"

C20_HeadersFlatMapOrError ==
    input.fn = "normalizeHeaders" =>
        LET headers == input.arg
            present == headers.type \notin {"undefined", "null"}
            flat == /\ headers.type = "object"
                    /\ \A k \in DOMAIN headers.map : headers.map[k].type # "object"
            kept == {k \in DOMAIN headers.map :
                        headers.map[k].type \notin {"undefined", "null"}}
        IN  /\ (present /\ ~flat) =>
                  (~output.ok /\ output.error = "headers must be an object")
            /\ flat =>
                  /\ output.ok
                  /\ output.defined
                  /\ DOMAIN output.value = kept
                  /\ \A k \in kept : output.value[k] = StringForm(headers.map[k])

\* the step is a /auth/start request (the only producer of state tokens)
AuthStarts == DOMAIN issued' # DOMAIN issued

\* C21: after a /auth/start answered with the redirect, no pending state is
\* older than the TTL, every state that was pending and not older than the
\* TTL is still pending with its timestamp, and the only other pending state
\* is the one of the redirect, never issued before and stamped with the
\* current time; no other step adds a state to the pending set.
C21_StartSweepsAndAddsOne ==
    /\ [][(AuthStarts /\ last'.status = 302) =>
            /\ \A s \in DOMAIN oauthStates' :
                  now - oauthStates'[s].createdAt <= AUTH_STATE_TTL_MS
            /\ \A s \in DOMAIN oauthStates :
                  now - oauthStates[s].createdAt <= AUTH_STATE_TTL_MS =>
                      /\ s \in DOMAIN oauthStates'
                      /\ oauthStates'[s] = oauthStates[s]
            /\ DOMAIN oauthStates' \ DOMAIN oauthStates = {last'.state}
            /\ last'.state \notin DOMAIN issued
            /\ oauthStates'[last'.state].createdAt = now]_vars
    /\ [][~AuthStarts => DOMAIN oauthStates' \subseteq DOMAIN oauthStates]_vars

C21_Witness ==
    /\ last.op = "authStart"
    /\ last.status = 302
    /\ last.state = 2
    /\ DOMAIN oauthStates = {2}
    /\ ~issued[1]
    /\ oauthStates[2].createdAt = 3 * TickMs

\* C22: when the command-line authorization saves token material that has
\* no refresh_token over a stored record that has one, the stored record
\* still has a refresh_token afterwards; and whenever it reports the tokens
\* saved, the stored record has a refresh_token.
C22_CliKeepsRefreshToken ==
    /\ [][(/\ phase = "prompt"
            /\ phase' = "done"
            /\ ~Has(last'.tokens, "refresh_token")
            /\ tokensFile.exists
            /\ Truthy(tokensFile.data, "refresh_token")) =>
               (tokensFile'.exists /\ Truthy(tokensFile'.data, "refresh_token"))]_vars
    /\ []((last.op = "cli" /\ last.status = 0) =>
            (tokensFile.exists /\ Truthy(tokensFile.data, "refresh_token")))

\* C23: a /send whose loadOAuthClient throws (answered 500 before any await)
\* found the cache empty and leaves it empty, with no client built and no
\* listener registered; and whenever the cache is empty, the OAuth client
\* variables are set and tokens.json holds a record with a refresh_token, a
\* /send that passes validation reads that record, builds and caches a
\* client whose credentials are the record, and goes on.
C23_FailureNotCached ==
    /\ [][(SendArrives /\ last'.status = 500) =>
            /\ cachedAuthClient = 0
            /\ cachedAuthClient' = 0
            /\ clients' = clients
            /\ clients = <<>>
            /\ sends' = sends]_vars
    /\ [][(/\ SendArrives
            /\ last'.status \notin {400, 401}
            /\ cachedAuthClient = 0
            /\ createOAuthClient.ok
            /\ tokensFile.exists
            /\ Truthy(tokensFile.data, "refresh_token")) =>
               /\ last'.status = 0
               /\ last'.load = <<"existsSync", "readFileSync", "new OAuth2", "on tokens">>
               /\ cachedAuthClient' = 1
               /\ Len(clients') = 1
               /\ clients'[1].credentials = tokensFile.data
               /\ sends'[Len(sends')].client = 1]_vars

C23_Witness ==
    /\ last.op = "send"
    /\ last.status = 0
    /\ last.load # <<>>
    /\ cachedAuthClient = 1
    /\ clients[1].credentials = [access_token |-> "A2", refresh_token |-> "R2"]
    /\ tokensFile = File([access_token |-> "A2", refresh_token |-> "R2"])

\* C24: at every moment at most one client has been built (each is built
\* with its one listener), it is the cached one, and every /send suspended
\* in an await, however many there are, holds that same client.
C24_OneSessionPerProcess ==
    /\ Len(clients) <= 1
    /\ cachedAuthClient = Len(clients)
    /\ \A i \in 1..Len(sends) :
          /\ cachedAuthClient # 0
          /\ sends[i].client = cachedAuthClient

C24_Witness ==
    /\ Len(sends) = 2
    /\ sends[1].client = 1
    /\ sends[2].client = 1
    /\ sends[1].pc = "provider"
    /\ Len(clients) = 1
    /\ last.op = "send"
    /\ last.load = <<>>

\* C25: a /auth/start answered 500 adds no state to the pending set: the
\* pending states after it are those pending before it that are not older
\* than the TTL, and every pending state is one that a redirect handed out.
C25_FailedStartAddsNoState ==
    /\ [][(AuthStarts /\ last'.status = 500) =>
            /\ DOMAIN oauthStates' \subseteq DOMAIN oauthStates
            /\ \A s \in DOMAIN oauthStates :
                  now - oauthStates[s].createdAt <= AUTH_STATE_TTL_MS =>
                      s \in DOMAIN oauthStates']_vars
    /\ []((last.op = "authStart" /\ last.status = 500) =>
            last.state \notin DOMAIN oauthStates)

====
